---- MODULE Spec2Model ----
(***************************************************************************)
(* Model of research_bot.py: three site monitors with one seen-URL file    *)
(* each, the module-level registry pending_articles backed by              *)
(* articles.json, the periodic job check_sites_callback and the button     *)
(* handler insights_callback.                                              *)
(*                                                                         *)
(* The body of SSGAInsightsMonitor.check_new (lines 157-222) is mis-       *)
(* indented in the source; it is modelled with the structure its           *)
(* statements have once indented under the method, which is the same       *)
(* structure as the two other monitors.                                    *)
(***************************************************************************)
EXTENDS Integers, Sequences, FiniteSets, TLC

(* ---------------------------- bounds ----------------------------------- *)
MaxUrl == 3        \* URLs the sites can ever list
MaxSeed == 1       \* hash seeds 0..MaxSeed a process can start with
MaxFaults == 1     \* crashes plus storage errors in one behaviour
NumUsers == 1      \* length of allowed_users
MaxTitleLen == 4   \* symbols in a scraped title

(* ------------------------- program constants --------------------------- *)
TelegramLimit == 4096    \* the length above which line 384 cuts a message

MonitorNames == <<"ADMIS Written Commentary", "Saxo Bank Research", "SSGA Insights">>

Sources == {MonitorNames[i] : i \in 1..Len(MonitorNames)}

Urls == 1..MaxUrl

Seeds == 0..MaxSeed

Users == 1..NumUsers

allowed_users == [i \in 1..NumUsers |-> i]

\* Every URL belongs to one site: a monitor prefixes its own BASE_URL.
SourceOf(u) == MonitorNames[(((u - 1) \div 2) % Len(MonitorNames)) + 1]

\* Titles are kept by the one feature the cycle branches on (line 363).
Titles == {"plain", "podcast"}

\* The "date" field a monitor produces: "" (no date on the page; always so
\* for Saxo, line 132) or "fmt" (a date re-formatted as "%H:%M %d/%m/%Y",
\* lines 87-88 and 203-208).  Date text the monitor could not parse is kept
\* as it is (lines 90, 210) and is not among the pages drawn here.
DatesOf(s) == IF s = "Saxo Bank Research" THEN {""} ELSE {"", "fmt"}

Article(u, t, d) == [title |-> t, url |-> u, date |-> d, source |-> SourceOf(u)]

NoFile == [valid |-> FALSE, urls |-> {}]

NoRegistryFile == [valid |-> FALSE, map |-> {}]

VARIABLES
  site,             \* the articles the three listing pages show
  seenFile,         \* seen_urls_<site>.json, per source
  articlesFile,     \* articles.json
  seed,             \* the process's string-hash seed
  pending_articles, \* the module global, a set of [id, art] entries
  pc,               \* position of check_sites_callback
  mon,              \* index of the monitor whose check_new runs next
  seen,             \* self.seen of the monitors built by this cycle
  seen_in_cycle,
  new_articles,
  ni, ui,           \* indices of the send loops (lines 382, 388)
  lastError,        \* the exception that ended the last run of the job
  run, ioerrs,      \* process incarnation, storage errors so far
  delivered,        \* messages delivered, per url and user
  attempts,         \* send_message calls of this cycle, per url and user
  got,              \* urls of the messages delivered in this cycle
  returned,         \* articles the monitors returned in this cycle
  ids,              \* <<url, art_id>> pairs computed at line 375
  payloads,         \* callback payloads of delivered messages
  persistFailed,    \* urls whose persist failed in this cycle
  fetchOk,          \* every check_new of this cycle got its page
  clean,            \* the last run got every page and completed, and the
                    \* listings are as that run saw them
  fresh,            \* art_ids registered by the last run of this process
  durable,          \* per source, self.seen at the last completed write
  hs,               \* insights_callback: position, article, outcome
  norm,             \* a scraped title and what lines 350-361 make of it
  reg               \* the last registration of lines 375-378 tried alone

vars == <<site, seenFile, articlesFile, seed, pending_articles, pc, mon, seen,
          seen_in_cycle, new_articles, ni, ui, lastError, run, ioerrs,
          delivered, attempts, got, returned, ids, payloads, persistFailed,
          fetchOk, clean, fresh, durable, hs, norm, reg>>

disk == <<seenFile, articlesFile>>
cycleLocals == <<mon, seen, seen_in_cycle, new_articles, ni, ui>>
history == <<delivered, attempts, got, returned, ids, payloads, persistFailed>>
tracking == <<fetchOk, clean>>
aux == <<hs, norm, reg>>

(* ------------------------------ helpers -------------------------------- *)
\* hash(url): deterministic inside one process, keyed by the process seed.
PyHash(sd, u) == sd * (MaxUrl + 1) + u

ArtId(sd, s, u) == <<s, PyHash(sd, u)>>

\* ADMISMonitor.__init__: a missing or undecodable file is the empty set.
LoadSeen(f) == IF f.valid THEN f.urls ELSE {}

\* load_articles
load_articles(f) == IF f.valid THEN f.map ELSE {}

Keys(p) == {e.id : e \in p}

\* The listing page of source s, top to bottom.
RECURSIVE Listing(_, _)
Listing(s, u) ==
  IF u > MaxUrl THEN <<>>
  ELSE LET here == {a \in site : a.url = u /\ a.source = s}
       IN (IF here = {} THEN <<>> ELSE <<CHOOSE a \in here : TRUE>>)
          \o Listing(s, u + 1)

\* The loop of check_new without the membership test of line 92: a faulty
\* variant, against which the properties below are tried.
RECURSIVE CheckLoopNoTest(_, _, _)
CheckLoopNoTest(cands, seenSet, new) ==
  IF cands = <<>> THEN [seen |-> seenSet, new |-> new]
  ELSE CheckLoopNoTest(Tail(cands), seenSet \cup {Head(cands).url},
                       Append(new, Head(cands)))

\* The loop of check_new over the parsed candidates.
RECURSIVE CheckLoop(_, _, _)
CheckLoop(cands, seenSet, new) ==
  IF cands = <<>> THEN [seen |-> seenSet, new |-> new]
  ELSE LET a == Head(cands)
       IN IF a.url \notin seenSet
          THEN CheckLoop(Tail(cands), seenSet \cup {a.url}, Append(new, a))
          ELSE CheckLoop(Tail(cands), seenSet, new)

IsFiltered(title) == title = "podcast"

Msg(source, title, url) == [source |-> source, title |-> title, url |-> url]

\* Lines 376-377: the registry after art was offered under id.
Register(pend, id, art) ==
  IF id \in Keys(pend) THEN pend ELSE pend \cup {[id |-> id, art |-> art]}

\* Lines 346-378 for the list one monitor returned.
RECURSIVE DiffLoop(_, _, _, _, _)
DiffLoop(new, sic, pend, na, cids) ==
  IF new = <<>> THEN [sic |-> sic, pend |-> pend, na |-> na, ids |-> cids]
  ELSE LET art == Head(new)
           id == ArtId(seed, art.source, art.url)
       IN IF art.url \in sic THEN DiffLoop(Tail(new), sic, pend, na, cids)
          ELSE IF IsFiltered(art.title)
          THEN DiffLoop(Tail(new), sic \cup {art.url}, pend, na, cids)
          ELSE IF id \in Keys(pend)
          THEN DiffLoop(Tail(new), sic \cup {art.url}, pend, na,
                        cids \cup {<<art.url, id>>})
          ELSE DiffLoop(Tail(new), sic \cup {art.url},
                        Register(pend, id, art),
                        Append(na, [msg |-> Msg(art.source, art.title, art.url),
                                    art_id |-> id]),
                        cids \cup {<<art.url, id>>})

\* The filter of lines 335-341, entry by entry.
\* datetime.strptime(art["date"], "%H:%M %d/%m/%Y") > cutoff_date (line 339):
\* strptime refuses free text, and its naive result does not compare with
\* the timezone-aware cutoff_date of line 334.
DateCompare(d) == IF d = "fmt" THEN "TypeError" ELSE "ValueError"

\* The condition of lines 337-340 reaches the comparison for these entries.
EvictRaises(art) == art.date # "" /\ art.date # "n/a"

EvictKeeps(art) ==
  art.date # "" /\ art.date # "n/a" /\ DateCompare(art.date) = "True"

Raising == {e \in pending_articles : EvictRaises(e.art)}

Evicted == {e \in pending_articles : EvictKeeps(e.art)}

Zero == [p \in Urls \X Users |-> 0]

\* insights_callback is not running.
NoArticle == [title |-> "", url |-> 0, date |-> "", source |-> "none"]

HandlerIdle == [pc |-> "idle", id |-> <<"none", 0>>, art |-> NoArticle,
                status |-> 0, text |-> "", posted |-> FALSE, answer |-> "none"]

\* Lines 376-377 have not been tried alone.
NoCall == [done |-> FALSE, id |-> <<"none", 0>>, art |-> NoArticle]

\* No title is being cleaned.
NoTitle == [raw |-> <<>>, clean |-> <<>>, done |-> FALSE]

Range(q) == {q[i] : i \in 1..Len(q)}

(* ------------------------------- Init ---------------------------------- *)
\* A first process before the first run of the job, up to the registry and
\* the title being cleaned.
InitRest ==
  /\ site = {}
  /\ seenFile = [s \in Sources |-> NoFile]
  /\ articlesFile = NoRegistryFile
  /\ seed \in Seeds
  /\ pc = "idle"
  /\ mon = 1
  /\ seen = [s \in Sources |-> {}]
  /\ seen_in_cycle = {}
  /\ new_articles = <<>>
  /\ ni = 1
  /\ ui = 1
  /\ lastError = "none"
  /\ run = 0
  /\ ioerrs = 0
  /\ delivered = Zero
  /\ attempts = Zero
  /\ got = {}
  /\ returned = {}
  /\ ids = {}
  /\ payloads = {}
  /\ persistFailed = {}
  /\ fetchOk = TRUE
  /\ clean = FALSE
  /\ fresh = {}
  /\ durable = [s \in Sources |-> {}]
  /\ hs = HandlerIdle
  /\ reg = NoCall

Init ==
  /\ InitRest
  /\ pending_articles = {}
  /\ norm = NoTitle

(* --------------------------- process start ----------------------------- *)
\* Module initialisation (lines 51-52) of a fresh process reading file af.
Boot(af) ==
  /\ seed' \in Seeds
  /\ pending_articles' = load_articles(af)
  /\ pc' = "idle"
  /\ mon' = 1
  /\ seen' = [s \in Sources |-> {}]
  /\ seen_in_cycle' = {}
  /\ new_articles' = <<>>
  /\ ni' = 1
  /\ ui' = 1
  /\ lastError' = "none"
  /\ run' = run + 1
  /\ attempts' = Zero
  /\ got' = {}
  /\ returned' = {}
  /\ persistFailed' = {}
  /\ fetchOk' = TRUE
  /\ clean' = FALSE
  /\ fresh' = {}
  /\ UNCHANGED <<site, ioerrs, delivered, ids, payloads, aux>>

CanFail == run + ioerrs < MaxFaults

\* The locals of a run of the job that has ended.
DropLocals ==
  /\ mon' = 1
  /\ seen' = [s \in Sources |-> {}]
  /\ seen_in_cycle' = {}
  /\ new_articles' = <<>>
  /\ ni' = 1
  /\ ui' = 1
  /\ attempts' = Zero
  /\ got' = {}
  /\ returned' = {}
  /\ fetchOk' = TRUE

\* The process is killed while no file is being written, and started again.
CrashRestart ==
  /\ CanFail
  /\ Boot(articlesFile)
  /\ UNCHANGED <<disk, durable>>

(* ------------------------------ the sites ------------------------------ *)
\* A site lists one more article.  Listings are read only by check_new, so
\* changes are taken between runs of the job.
Publish ==
  /\ pc = "idle"
  /\ \E u \in Urls :
       /\ \A a \in site : a.url # u
       /\ \E t \in Titles : \E d \in DatesOf(SourceOf(u)) :
            site' = site \cup {Article(u, t, d)}
  /\ clean' = FALSE
  /\ UNCHANGED <<disk, seed, pending_articles, pc, cycleLocals, lastError, run,
                 ioerrs, history, fetchOk>>
  /\ UNCHANGED <<fresh, durable, aux>>

(* -------------------- check_sites_callback, 324-343 -------------------- *)
\* The filter of lines 335-341 raises: the job ends there.
CycleStartEvictRaises ==
  /\ pc = "idle"
  /\ Raising # {}
  /\ \E e \in Raising : lastError' = DateCompare(e.art.date)
  /\ persistFailed' = {}
  /\ clean' = FALSE
  /\ UNCHANGED <<site, disk, seed, pending_articles, pc, cycleLocals, run,
                 ioerrs, delivered, attempts, got, returned, ids, payloads, fetchOk>>
  /\ UNCHANGED <<fresh, durable, aux>>

\* The timer of line 406 starts a run.  Runs are taken one at a time: the
\* script has no guard of its own, and whether a tick can start a run while
\* another awaits send_message is the job queue's behaviour, outside the
\* script.
CycleStartOk ==
  /\ pc = "idle"
  /\ Raising = {}
  /\ pending_articles' = Evicted
  /\ articlesFile' = [valid |-> TRUE, map |-> Evicted]
  /\ seen' = [s \in Sources |-> LoadSeen(seenFile[s])]
  /\ seen_in_cycle' = {}
  /\ new_articles' = <<>>
  /\ mon' = 1
  /\ pc' = "scrape"
  /\ lastError' = "none"
  /\ persistFailed' = {}
  /\ UNCHANGED <<site, seenFile, seed, ni, ui, run, ioerrs, delivered, attempts,
                 got, returned, ids, payloads, tracking>>
  /\ fresh' = {}
  /\ UNCHANGED <<durable, aux>>

\* save_articles at line 342 raises OSError, before or after open("w")
\* emptied the file.
CycleStartSaveFails ==
  /\ pc = "idle"
  /\ Raising = {}
  /\ CanFail
  /\ pending_articles' = Evicted
  /\ articlesFile' \in {articlesFile, NoRegistryFile}
  /\ lastError' = "OSError"
  /\ ioerrs' = ioerrs + 1
  /\ persistFailed' = {e.art.url : e \in Evicted}
  /\ clean' = FALSE
  /\ UNCHANGED <<site, seenFile, seed, pc, cycleLocals, run, delivered,
                 attempts, got, returned, ids, payloads, fetchOk>>
  /\ fresh' = {}
  /\ UNCHANGED <<durable, aux>>

\* The process is killed inside save_articles at line 342, after
\* open("w") and before the data reached the file.
CrashInEvictSave ==
  /\ pc = "idle"
  /\ Raising = {}
  /\ CanFail
  /\ articlesFile' = NoRegistryFile
  /\ Boot(NoRegistryFile)
  /\ UNCHANGED <<seenFile, durable>>

(* ----------------- check_new and the loop of 345-378 ------------------- *)
ThisSource == MonitorNames[mon]

Cands == Listing(ThisSource, 1)

\* check_new without the write of lines 95-96: a faulty variant.
WrittenNever(r) == seenFile[ThisSource]

\* The file after check_new ran the loop result r: written only if some
\* candidate was new.
Written(r) ==
  IF r.new # <<>> THEN [valid |-> TRUE, urls |-> r.seen] ELSE seenFile[ThisSource]

\* self.seen as of the last write check_new completed in the loop result r.
DurableAfter(r) ==
  IF r.new # <<>> THEN [durable EXCEPT ![ThisSource] = r.seen] ELSE durable

NextMonitor(na) ==
  IF mon < Len(MonitorNames)
  THEN /\ mon' = mon + 1
       /\ pc' = "scrape"
  ELSE /\ mon' = 1
       /\ pc' = IF na = <<>> THEN "save" ELSE "notify"

\* requests.get or raise_for_status raises: check_new returns [].
CheckNewFetchFails ==
  /\ pc = "scrape"
  /\ NextMonitor(new_articles)
  /\ fetchOk' = FALSE
  /\ UNCHANGED <<site, disk, seed, pending_articles, seen, seen_in_cycle,
                 new_articles, ni, ui, lastError, run, ioerrs, history, clean>>
  /\ UNCHANGED <<fresh, durable, aux>>

CheckNewOk ==
  /\ pc = "scrape"
  /\ LET r == CheckLoop(Cands, seen[ThisSource], <<>>)
         d == DiffLoop(r.new, seen_in_cycle, pending_articles, new_articles, ids)
     IN /\ seen' = [seen EXCEPT ![ThisSource] = r.seen]
        /\ seenFile' = [seenFile EXCEPT ![ThisSource] = Written(r)]
        /\ seen_in_cycle' = d.sic
        /\ pending_articles' = d.pend
        /\ new_articles' = d.na
        /\ ids' = d.ids
        /\ returned' = returned \cup Range(r.new)
        /\ fresh' = fresh \cup (Keys(d.pend) \ Keys(pending_articles))
        /\ durable' = DurableAfter(r)
        /\ NextMonitor(d.na)
  /\ UNCHANGED <<site, articlesFile, seed, ni, ui, lastError, run, ioerrs,
                 delivered, attempts, got, payloads, persistFailed, tracking>>
  /\ UNCHANGED aux

\* The write of lines 93-96 for candidate j raises OSError, before or after
\* open("w") emptied the file; nothing catches it.
CheckNewWriteFails ==
  /\ pc = "scrape"
  /\ CanFail
  /\ \E j \in 1..Len(Cands) :
       LET r == CheckLoop(SubSeq(Cands, 1, j - 1), seen[ThisSource], <<>>)
       IN /\ Cands[j].url \notin r.seen
          /\ \E f \in {Written(r), NoFile} :
               seenFile' = [seenFile EXCEPT ![ThisSource] = f]
          /\ durable' = DurableAfter(r)
          /\ persistFailed' = {Cands[j].url}
  /\ lastError' = "OSError"
  /\ ioerrs' = ioerrs + 1
  /\ pc' = "idle"
  /\ DropLocals
  /\ clean' = FALSE
  /\ UNCHANGED <<site, articlesFile, seed, pending_articles, run, delivered,
                 ids, payloads>>
  /\ UNCHANGED <<fresh, aux>>

\* An <h3> whose <a> has no href follows the first j candidates of the
\* ADMIS page: a['href'] at line 82 raises KeyError outside any try.
CheckNewParseFails ==
  /\ pc = "scrape"
  /\ mon = 1
  /\ \E j \in 0..Len(Cands) :
       LET r == CheckLoop(SubSeq(Cands, 1, j), seen[ThisSource], <<>>)
       IN /\ seenFile' = [seenFile EXCEPT ![ThisSource] = Written(r)]
          /\ durable' = DurableAfter(r)
  /\ lastError' = "KeyError"
  /\ pc' = "idle"
  /\ DropLocals
  /\ clean' = FALSE
  /\ UNCHANGED <<site, articlesFile, seed, pending_articles, run, ioerrs,
                 delivered, ids, payloads, persistFailed>>
  /\ UNCHANGED <<fresh, aux>>

\* The process is killed inside the write of lines 95-96 for candidate j.
CrashInSeenWrite ==
  /\ pc = "scrape"
  /\ CanFail
  /\ \E j \in 1..Len(Cands) :
       LET r == CheckLoop(SubSeq(Cands, 1, j - 1), seen[ThisSource], <<>>)
       IN /\ Cands[j].url \notin r.seen
          /\ durable' = DurableAfter(r)
  /\ seenFile' = [seenFile EXCEPT ![ThisSource] = NoFile]
  /\ Boot(articlesFile)
  /\ UNCHANGED articlesFile

(* ------------------------ the sends, 380-393 --------------------------- *)
\* len(msg) at line 384.  The template of lines 368-374 puts text around the
\* title; a "long" title is one that fills the limit by itself.
MsgLen(m) == (IF m.title = "long" THEN TelegramLimit ELSE 1) + 1

\* The text send_message gets for the entry e of new_articles (lines
\* 384-387): its link is the one of msg, or, when msg was cut, the url that
\* line 387 takes out of new_articles[0][0].
Text(e) ==
  IF MsgLen(e.msg) > TelegramLimit
  THEN [cut |-> TRUE, link |-> new_articles[1].msg.url]
  ELSE [cut |-> FALSE, link |-> e.msg.url]

\* The send loops without the try of lines 389-393, so that the first failed
\* send_message ends them: a faulty variant.
SendStopsOnFailure ==
  /\ pc = "notify"
  /\ LET e == new_articles[ni]
         k == <<e.msg.url, allowed_users[ui]>>
     IN /\ attempts' = [attempts EXCEPT ![k] = @ + 1]
        /\ \E ok \in BOOLEAN :
             IF ok
             THEN /\ delivered' = [delivered EXCEPT ![k] = @ + 1]
                  /\ got' = got \cup {e.msg.url}
                  /\ payloads' = payloads \cup {[id |-> e.art_id, url |-> e.msg.url,
                                                   link |-> Text(e).link]}
                  /\ IF ui < Len(allowed_users)
                     THEN /\ ui' = ui + 1
                          /\ UNCHANGED <<ni, pc>>
                     ELSE /\ ui' = 1
                          /\ IF ni < Len(new_articles)
                             THEN /\ ni' = ni + 1
                                  /\ UNCHANGED pc
                             ELSE /\ ni' = 1
                                  /\ pc' = "save"
             ELSE /\ UNCHANGED <<delivered, got, payloads>>
                  /\ ni' = 1
                  /\ ui' = 1
                  /\ pc' = "save"
  /\ UNCHANGED <<site, disk, seed, pending_articles, mon, seen, seen_in_cycle,
                 new_articles, lastError, run, ioerrs, returned, ids,
                 persistFailed, tracking>>
  /\ UNCHANGED <<fresh, durable, aux>>

Send ==
  /\ pc = "notify"
  /\ LET e == new_articles[ni]
         k == <<e.msg.url, allowed_users[ui]>>
     IN /\ attempts' = [attempts EXCEPT ![k] = @ + 1]
        /\ \E ok \in BOOLEAN :
             IF ok
             THEN /\ delivered' = [delivered EXCEPT ![k] = @ + 1]
                  /\ got' = got \cup {e.msg.url}
                  /\ payloads' = payloads \cup {[id |-> e.art_id, url |-> e.msg.url,
                                                   link |-> Text(e).link]}
             ELSE UNCHANGED <<delivered, got, payloads>>
  /\ IF ui < Len(allowed_users)
     THEN /\ ui' = ui + 1
          /\ UNCHANGED <<ni, pc>>
     ELSE /\ ui' = 1
          /\ IF ni < Len(new_articles)
             THEN /\ ni' = ni + 1
                  /\ UNCHANGED pc
             ELSE /\ ni' = 1
                  /\ pc' = "save"
  /\ UNCHANGED <<site, disk, seed, pending_articles, mon, seen, seen_in_cycle,
                 new_articles, lastError, run, ioerrs, returned, ids,
                 persistFailed, tracking>>
  /\ UNCHANGED <<fresh, durable, aux>>

(* --------------------- save_articles at line 395 ----------------------- *)
CycleEndOk ==
  /\ pc = "save"
  /\ articlesFile' = [valid |-> TRUE, map |-> pending_articles]
  /\ pc' = "idle"
  /\ clean' = fetchOk
  /\ DropLocals
  /\ UNCHANGED <<site, seenFile, seed, pending_articles, lastError, run, ioerrs,
                 delivered, ids, payloads, persistFailed>>
  /\ UNCHANGED <<fresh, durable, aux>>

CycleEndSaveFails ==
  /\ pc = "save"
  /\ CanFail
  /\ articlesFile' \in {articlesFile, NoRegistryFile}
  /\ persistFailed' = {new_articles[i].msg.url : i \in 1..Len(new_articles)}
  /\ pc' = "idle"
  /\ lastError' = "OSError"
  /\ ioerrs' = ioerrs + 1
  /\ clean' = FALSE
  /\ DropLocals
  /\ UNCHANGED <<site, seenFile, seed, pending_articles, run, delivered, ids,
                 payloads>>
  /\ UNCHANGED <<fresh, durable, aux>>

CrashInFinalSave ==
  /\ pc = "save"
  /\ CanFail
  /\ articlesFile' = NoRegistryFile
  /\ Boot(NoRegistryFile)
  /\ UNCHANGED <<seenFile, durable>>

(* ------------- the send loops with messages of any length -------------- *)
\* Pages whose titles may be long enough for line 384.
LongSites ==
  {S \in SUBSET {Article(u, t, "") : u \in Urls, t \in {"plain", "long"}} :
     /\ S # {}
     /\ \A a \in S : \A b \in S : a.url = b.url => a = b}

\* Lines 345-378 of a first run in a fresh process, without a fault: the
\* three monitors in turn, from empty seen files and an empty registry.
RECURSIVE Scraped(_, _)
Scraped(m, acc) ==
  IF m > Len(MonitorNames) THEN acc
  ELSE LET r == CheckLoop(Listing(MonitorNames[m], 1), {}, <<>>)
       IN Scraped(m + 1, DiffLoop(r.new, acc.sic, acc.pend, acc.na, acc.ids))

\* The job at line 380 of its first run, over pages drawn from LongSites.
InitSend ==
  /\ site \in LongSites
  /\ seed \in Seeds
  /\ LET d == Scraped(1, [sic |-> {}, pend |-> {}, na |-> <<>>, ids |-> {}])
         urls == [s \in Sources |-> {a.url : a \in {b \in site : b.source = s}}]
     IN /\ seenFile = [s \in Sources |->
                        IF urls[s] = {} THEN NoFile
                        ELSE [valid |-> TRUE, urls |-> urls[s]]]
        /\ seen = urls
        /\ durable = urls
        /\ seen_in_cycle = d.sic
        /\ pending_articles = d.pend
        /\ new_articles = d.na
        /\ ids = d.ids
        /\ fresh = Keys(d.pend)
  /\ articlesFile = [valid |-> TRUE, map |-> {}]
  /\ returned = site
  /\ pc = "notify"
  /\ mon = 1
  /\ ni = 1
  /\ ui = 1
  /\ lastError = "none"
  /\ run = 0
  /\ ioerrs = 0
  /\ delivered = Zero
  /\ attempts = Zero
  /\ got = {}
  /\ payloads = {}
  /\ persistFailed = {}
  /\ fetchOk = TRUE
  /\ clean = FALSE
  /\ hs = HandlerIdle
  /\ norm = NoTitle
  /\ reg = NoCall

NextSend == Send \/ CycleEndOk

SpecSend == InitSend /\ [][NextSend]_vars

(* --------------------- the title cleaning, 350-361 --------------------- *)
\* A title is a sequence of symbols: the letters "x" and "y", the blank,
\* "-", "." and "T", which stands for one whole date phrase of the prefix
\* pattern of line 354 such as "2 hours ago".
WordChars == {"x", "y"}

Symbols == WordChars \cup {" ", "-", ".", "T"}

RECURSIVE SkipWord(_, _)
SkipWord(s, i) ==
  IF i <= Len(s) /\ s[i] \in WordChars THEN SkipWord(s, i + 1) ELSE i

RECURSIVE SkipSpace(_, _)
SkipSpace(s, i) ==
  IF i <= Len(s) /\ s[i] = " " THEN SkipSpace(s, i + 1) ELSE i

\* One round of the group \w+\s*-\s*(date phrase)\s* of line 354 at
\* position i: the position after it, or 0 when the group does not match.
OnePrefix(s, i) ==
  LET j == SkipWord(s, i)
      k == SkipSpace(s, j)
      l == SkipSpace(s, k + 1)
  IN IF j = i THEN 0
     ELSE IF k > Len(s) \/ s[k] # "-" THEN 0
     ELSE IF l > Len(s) \/ s[l] # "T" THEN 0
     ELSE SkipSpace(s, l + 1)

\* Where the match of ^(group)* ends.
RECURSIVE PrefixEnd(_, _)
PrefixEnd(s, i) ==
  LET j == OnePrefix(s, i) IN IF j = 0 THEN i ELSE PrefixEnd(s, j)

\* re.sub(prefix_pattern, '', title) at line 355.
StripPrefix(s) == SubSeq(s, PrefixEnd(s, 1), Len(s))

\* str.strip()
RECURSIVE Strip(_)
Strip(s) ==
  IF s = <<>> THEN s
  ELSE IF Head(s) = " " THEN Strip(Tail(s))
  ELSE IF s[Len(s)] = " " THEN Strip(SubSeq(s, 1, Len(s) - 1))
  ELSE s

\* The title cleaning without lines 356-357: a faulty variant.
FallbackNone(stripped, original_title) == stripped

\* Lines 356-357.
Fallback(stripped, original_title) ==
  IF stripped = <<>> THEN original_title ELSE stripped

\* s[i..i+n-1] is followed by a copy of itself.
Repeats(s, i, n) ==
  /\ i + 2 * n - 1 <= Len(s)
  /\ SubSeq(s, i, i + n - 1) = SubSeq(s, i + n, i + 2 * n - 1)

\* The copies of s[i..i+n-1] that \1+ takes from position j on.
RECURSIVE CopiesEnd(_, _, _, _)
CopiesEnd(s, i, n, j) ==
  IF j + n - 1 <= Len(s) /\ SubSeq(s, j, j + n - 1) = SubSeq(s, i, i + n - 1)
  THEN CopiesEnd(s, i, n, j + n)
  ELSE j

\* re.sub(r'(.+?)\1+', r'\1', title) at line 358, from position i on: the
\* shortest group that is repeated, with all its copies, becomes one copy.
RECURSIVE Collapse(_, _)
Collapse(s, i) ==
  IF i > Len(s) THEN <<>>
  ELSE LET ns == {n \in 1..Len(s) : Repeats(s, i, n)}
       IN IF ns = {} THEN <<s[i]>> \o Collapse(s, i + 1)
          ELSE LET n == CHOOSE m \in ns : \A o \in ns : m <= o
               IN SubSeq(s, i, i + n - 1) \o Collapse(s, CopiesEnd(s, i, n, i + n))

\* x in y, for strings.
IsSubstring(x, y) ==
  \E i \in 0..(Len(y) - Len(x)) : SubSeq(y, i + 1, i + Len(x)) = x

FirstDot(s) ==
  IF \E i \in 1..Len(s) : s[i] = "."
  THEN CHOOSE i \in 1..Len(s) : s[i] = "." /\ \A j \in 1..(i - 1) : s[j] # "."
  ELSE 0

\* Lines 359-361.
Dedupe(s) ==
  LET d == FirstDot(s)
      first == Strip(SubSeq(s, 1, d - 1))
      rest == SubSeq(s, d + 1, Len(s))
  IN IF d # 0 /\ IsSubstring(first, rest) THEN first \o <<".">> ELSE s

\* Lines 351-361 for the title a monitor returned.
CleanTitle(title) ==
  Dedupe(Strip(Collapse(Fallback(Strip(StripPrefix(title)), title), 1)))

RECURSIVE SeqsUpTo(_)
SeqsUpTo(n) ==
  IF n = 0 THEN {<<>>}
  ELSE LET shorter == SeqsUpTo(n - 1)
       IN shorter \cup {Append(s, c) : s \in shorter, c \in Symbols}

\* What get_text(strip=True) can return that is not empty (lines 81, 128,
\* 193): text that neither begins nor ends with a blank.
ScrapedTitles ==
  {s \in SeqsUpTo(MaxTitleLen) : s # <<>> /\ s[1] # " " /\ s[Len(s)] # " "}

InitTitle ==
  /\ InitRest
  /\ pending_articles = {}
  /\ norm \in {[raw |-> s, clean |-> <<>>, done |-> FALSE] : s \in ScrapedTitles}

CleanOne ==
  /\ ~norm.done
  /\ norm' = [raw |-> norm.raw, clean |-> CleanTitle(norm.raw), done |-> TRUE]
  /\ UNCHANGED <<site, disk, seed, pending_articles, pc, cycleLocals, lastError,
                 run, ioerrs, history, tracking, fresh, durable, hs, reg>>

NextTitle == CleanOne

SpecTitle == InitTitle /\ [][NextTitle]_vars

(* ------------------- the registration of 375-378 alone ----------------- *)
\* The art_ids line 375 can produce in this process for the urls of source s.
IdsOf(s) == {ArtId(seed, s, u) : u \in {v \in Urls : SourceOf(v) = s}}

\* The records a monitor of source s can return.
RecordsOf(s) ==
  {Article(u, "plain", d) : u \in {v \in Urls : SourceOf(v) = s}, d \in DatesOf(s)}

\* Registries: at most one record per id, a record under an id of its own
\* source.  Two urls of one source may share an id, as two strings may
\* share a hash.
Registries ==
  {p \in SUBSET UNION {{[id |-> i, art |-> a] : i \in IdsOf(s), a \in RecordsOf(s)}
                        : s \in Sources} :
     \A e \in p : \A f \in p : e.id = f.id => e = f}

InitRegister ==
  /\ InitRest
  /\ pending_articles \in Registries
  /\ norm = NoTitle

\* One pass through lines 375-378 for a record and the id computed for it.
RegisterCall ==
  /\ \E s \in Sources : \E i \in IdsOf(s) : \E a \in RecordsOf(s) :
       /\ pending_articles' = Register(pending_articles, i, a)
       /\ reg' = [done |-> TRUE, id |-> i, art |-> a]
  /\ UNCHANGED <<site, disk, seed, pc, cycleLocals, lastError, run, ioerrs,
                 history, tracking, fresh, durable, hs, norm>>

NextRegister == RegisterCall

SpecRegister == InitRegister /\ [][NextRegister]_vars

(* ----------------------- insights_callback ----------------------------- *)
\* Lines 239-244: the lookup of the id a button carries.
NotFound(id) == id \notin Keys(pending_articles)

\* The status codes a site can answer with, one of each class.
Statuses == {200, 300, 404, 500}

\* The text lines 258-268 can extract from a page or a PDF.
Contents == {"", " ", "text"}

\* content.strip() at line 270
Trimmed(c) == IF c = " " THEN "" ELSE c

\* Registries as the job fills them: a record under the id of its own url.
JobRegistries ==
  {p \in Registries : \A e \in p : e.id = ArtId(seed, e.art.source, e.art.url)}

\* The handler with any such registry and no job running.
InitInsights ==
  /\ InitRest
  /\ pending_articles \in JobRegistries
  /\ norm = NoTitle

jobState == <<site, disk, seed, pending_articles, pc, cycleLocals, lastError,
              run, ioerrs, history, tracking, fresh, durable, norm, reg>>

\* A user presses the button of a message, old or new (lines 233-238).
\* The handler runs on the one event loop: no press is taken while it runs.
Press ==
  /\ hs.pc \in {"idle", "done"}
  /\ \E s \in Sources : \E i \in IdsOf(s) :
       hs' = [HandlerIdle EXCEPT !.pc = "pressed", !.id = i]
  /\ UNCHANGED jobState

\* Lines 239-248.
Lookup ==
  /\ hs.pc = "pressed"
  /\ hs' = IF NotFound(hs.id)
           THEN [hs EXCEPT !.pc = "done", !.answer = "not found"]
           ELSE [hs EXCEPT !.pc = "fetch",
                           !.art = (CHOOSE e \in pending_articles : e.id = hs.id).art]
  /\ UNCHANGED jobState

\* Lines 250-256 when the site answers: raise_for_status raises for the
\* 4xx and 5xx codes only.
Fetch ==
  /\ hs.pc = "fetch"
  /\ \E st \in Statuses :
       hs' = IF st >= 400
             THEN [hs EXCEPT !.pc = "done", !.status = st, !.answer = "failed to load"]
             ELSE [hs EXCEPT !.pc = "extract", !.status = st]
  /\ UNCHANGED jobState

\* requests.get raises (no route, reset connection).
FetchRaises ==
  /\ hs.pc = "fetch"
  /\ hs' = [hs EXCEPT !.pc = "done", !.answer = "failed to load"]
  /\ UNCHANGED jobState

\* The site accepts the connection and never answers: requests.get at line
\* 251 has no timeout and does not return.
FetchHangs ==
  /\ hs.pc = "fetch"
  /\ hs' = [hs EXCEPT !.pc = "blocked"]
  /\ UNCHANGED jobState

\* Lines 258-272.
Extract ==
  /\ hs.pc = "extract"
  /\ \E c \in Contents :
       hs' = IF Trimmed(c) = ""
             THEN [hs EXCEPT !.pc = "done", !.text = c, !.answer = "no text"]
             ELSE [hs EXCEPT !.pc = "post", !.text = c]
  /\ UNCHANGED jobState

\* Lines 274-321 when the endpoint answers or the call raises.
Post ==
  /\ hs.pc = "post"
  /\ \E ok \in BOOLEAN :
       hs' = [hs EXCEPT !.pc = "done", !.posted = TRUE,
                        !.answer = IF ok THEN "summary" ELSE "error summarizing"]
  /\ UNCHANGED jobState

\* The endpoint never answers: requests.post at line 313 has no timeout.
PostHangs ==
  /\ hs.pc = "post"
  /\ hs' = [hs EXCEPT !.pc = "blocked", !.posted = TRUE]
  /\ UNCHANGED jobState

HandlerStep ==
  Lookup \/ Fetch \/ FetchRaises \/ FetchHangs \/ Extract \/ Post \/ PostHangs

NextInsights ==
  \/ Press
  \/ Lookup
  \/ Fetch
  \/ FetchRaises
  \/ FetchHangs
  \/ Extract
  \/ Post
  \/ PostHangs

SpecInsights == InitInsights /\ [][NextInsights]_vars

\* The event loop runs a handler it has started whenever it can take a step.
FairInsights == SpecInsights /\ WF_vars(HandlerStep)

Next ==
  \/ Publish
  \/ CycleStartEvictRaises
  \/ CycleStartOk
  \/ CycleStartSaveFails
  \/ CrashInEvictSave
  \/ CheckNewFetchFails
  \/ CheckNewOk
  \/ CheckNewWriteFails
  \/ CheckNewParseFails
  \/ CrashInSeenWrite
  \/ Send
  \/ CycleEndOk
  \/ CycleEndSaveFails
  \/ CrashInFinalSave
  \/ CrashRestart

Spec == Init /\ [][Next]_vars

TypeOK ==
  /\ pc \in {"idle", "scrape", "notify", "save"}
  /\ mon \in 1..Len(MonitorNames)
  /\ seed \in Seeds
  /\ run + ioerrs <= MaxFaults

(* ------------------------------ claims --------------------------------- *)
Pairs == Urls \X Users

InSeenFile(u) == u \in LoadSeen(seenFile[SourceOf(u)])

\* C1: no article is delivered as new to the same recipient more than once,
\* whatever runs of the job, crashes and restarts happened.
NeverRedelivered == \A k \in Pairs : delivered[k] <= 1

\* C2: persist-then-notify.  A send_message call for an article is made only
\* when its url is already in the seen file of its source; what check_new
\* hands to the cycle was not in that file before the check, so an article
\* persisted before a crash is not sent by the runs after the restart; and
\* every article sent in a run was returned by a monitor in that run.
PersistThenNotify ==
  /\ [][\A k \in Pairs : attempts'[k] > attempts[k] => InSeenFile(k[1])]_vars
  /\ [][\A a \in returned' \ returned : ~InSeenFile(a.url)]_vars
  /\ [](\A k \in Pairs : attempts[k] > 0 => \E a \in returned : a.url = k[1])

\* A send was made to a user for an article that is in its seen file.
SentAfterPersist ==
  \E k \in Pairs : attempts[k] > 0 /\ delivered[k] > 0 /\ InSeenFile(k[1])

\* C3: end to end.  When a run of the job completes, every article a monitor
\* returned in it that the podcast/webinar filter let through is in the seen
\* file of its source and in articles.json under its art_id with the record
\* the monitor built, and send_message was called for it exactly once per
\* recipient; a run that follows a completed run that got every page, with
\* the listings unchanged, calls send_message for nothing.
EndToEnd ==
  /\ [][(pc = "save" /\ pc' = "idle" /\ run' = run /\ lastError' = "none")
        => \A a \in returned :
             ~IsFiltered(a.title) =>
               /\ a.url \in LoadSeen(seenFile'[a.source])
               /\ [id |-> ArtId(seed, a.source, a.url), art |-> a]
                    \in load_articles(articlesFile')
               /\ [id |-> ArtId(seed, a.source, a.url), art |-> a]
                    \in pending_articles'
               /\ \A usr \in Users : attempts[<<a.url, usr>>] = 1]_vars
  /\ [](clean /\ pc # "idle" => new_articles = <<>> /\ attempts = Zero)

\* The second run over an unchanged listing, whose one article the first
\* run delivered, has reached its end without a send.
SecondRunSilent ==
  /\ clean
  /\ pc = "save"
  /\ \E a \in site :
       /\ site = {a}
       /\ ~IsFiltered(a.title)
       /\ InSeenFile(a.url)
       /\ \A usr \in Users : delivered[<<a.url, usr>>] = 1

\* C4: the art_id computed for a (source, url) pair is the same every time
\* it is computed, in one process and across restarts.
StableIds == \A p \in ids : \A q \in ids : p[1] = q[1] => p[2] = q[2]

\* C5: the id carried by the button of every delivered message resolves in
\* pending_articles at every later moment.  (Runs of the job are a minute
\* apart, line 406; no action lets the 30 days of line 334 pass.)
PayloadResolves == \A n \in payloads : ~NotFound(n.id)

\* C6: a crash loses nothing of a seen file: the set a monitor loads after
\* the restart contains the set it would have loaded before the crash.
SeenSurvivesCrash ==
  [][run' # run =>
       \A s \in Sources : LoadSeen(seenFile[s]) \subseteq LoadSeen(seenFile'[s])]_vars

\* C7: when a persist fails for an article (the seen file or articles.json),
\* no message for it has been sent in that run.
FailedPersistBlocksSend == [][persistFailed' \cap got = {}]_vars

\* C8: no exception raised while a monitor fetches or parses its page
\* leaves check_new and ends the run of the job.
MonitorErrorsContained == lastError # "KeyError"

\* C9: the eviction at the start of a run never ends the run: no run of the
\* job ends with the exception of the comparison at line 339.
EvictionNeverAborts == lastError \notin {"TypeError", "ValueError"}

\* C13: the eviction at the start of a run removes no entry that is not
\* older than the cutoff: an entry the previous run of this process
\* registered, one timer interval earlier (line 406), is still in
\* pending_articles after the filter of lines 335-341.
EvictsOnlyOld ==
  [][(pc = "idle" /\ pc' = "scrape")
       => \A e \in pending_articles : e.id \in fresh => e \in pending_articles']_vars

\* C15: the set a monitor would load from a seen file is self.seen as it
\* was at the last write that completed, so every url marked seen by a
\* completed write is found again by a monitor built from the file.
SeenRoundTrip == \A s \in Sources : LoadSeen(seenFile[s]) = durable[s]

\* C17: when a run of the job ends, send_message has been called, for every
\* recipient, for every article that the run marked seen and the
\* podcast/webinar filter lets through.
NoLostAlert ==
  [][(pc # "idle" /\ pc' = "idle" /\ run' = run)
       => \A a \in site :
            (/\ ~IsFiltered(a.title)
             /\ \/ a \in returned
                \/ a.url \in LoadSeen(seenFile'[a.source]) \ LoadSeen(seenFile[a.source]))
            => \A usr \in Users : attempts[<<a.url, usr>>] >= 1]_vars

LinkMatchesButton == \A p \in payloads : <<p.link, p.id>> \in ids

\* C14: registration is idempotent and last-writer-wins.  Offering a record
\* that is already stored under the id leaves pending_articles unchanged,
\* and after a record was offered under an id, whether the id was present
\* or not, it is the record stored under that id.
RegisterLastWriterWins ==
  /\ [][(reg'.done /\ [id |-> reg'.id, art |-> reg'.art] \in pending_articles)
          => pending_articles' = pending_articles]_vars
  /\ [](reg.done => [id |-> reg.id, art |-> reg.art] \in pending_articles)

\* C16: the title that lines 351-361 make of a scraped title that is not
\* empty is not empty.
CleanTitleNotEmpty == norm.done => (norm.raw # <<>> /\ norm.clean # <<>>)

\* A title that the prefix pattern consumed entirely was cleaned.
PrefixAteAll == norm.done /\ Strip(StripPrefix(norm.raw)) = <<>>

\* C11: every press of an INSIGHTS button is answered: the handler that
\* took the press eventually edits the message, to the summary or to an
\* error text, also when a network call never responds.
EveryPressAnswered == (hs.pc = "pressed") ~> (hs.answer # "none")

\* C12: the summarization endpoint is called only for a request whose
\* fetch returned a 2xx status and whose extracted text is not blank; a
\* request that ended with the fetch or the extraction error did not call
\* it.
SummaryOnlyAfterSuccess ==
  /\ hs.posted => (hs.status \in 200..299 /\ Trimmed(hs.text) # "")
  /\ hs.answer \in {"failed to load", "no text"} => ~hs.posted

====
